---- MODULE Spec2Model ----
(***************************************************************************)
(* tag-report: the interval splitter (split_interval), the day grouper     *)
(* (group_by_day), the per-day series (bar) and the duration formatter     *)
(* (fmt_duration) of src/main.rs and src/visualizations.rs.                *)
(*                                                                         *)
(* Instants are epoch seconds.  A timezone is a UTC offset that changes at *)
(* most once (a daylight-saving transition); chrono's local-time           *)
(* resolution (LocalResult, single) is modelled on it, so that the         *)
(* unwrap() calls of split_interval can panic as they do in the program.   *)
(* Tags and descriptions are carried through group_by_day unchanged and    *)
(* are left out of the segments.                                           *)
(***************************************************************************)
EXTENDS Integers, Sequences, FiniteSets, TLC

VARIABLES
    tz,             \* Args.timezone
    start_seconds,  \* start.timestamp() of the reporting window
    end_seconds,    \* end.timestamp() of the reporting window
    data,           \* the CSV records, each [start, end], end possibly Empty
    now,            \* the last value chrono::Utc::now() returned
    res,            \* group_by_day's result: the segments <<start, end>>
    series,         \* bar's zipped (date, sum) pairs
    duration,       \* Report.duration, the string fmt_duration built
    start,          \* tests: split_interval's first argument
    end,            \* tests: split_interval's second argument
    parts,          \* tests: what split_interval returned
    pc              \* where the run is

vars == <<tz, start_seconds, end_seconds, data, now, res, series, duration,
          start, end, parts, pc>>

-----------------------------------------------------------------------------
(* Bounds and inputs *)

SecsPerDay == 86400

MaxDay == 2

MaxRecords == 2

\* 00:00, 01:30, 12:00 and 23:00 UTC
TimesOfDay == {0, 5400, 43200, 82800}

Instants == {d * SecsPerDay + t : d \in 0..MaxDay, t \in TimesOfDay}

\* Record.end == "" (an entry still running)
Empty == -1

\* A zone is [before, after, trans]: the UTC offset is `before` at instants
\* earlier than `trans` and `after` from `trans` on.
UTC == [before |-> 0, after |-> 0, trans |-> 0]

FixedPlusOne == [before |-> 3600, after |-> 3600, trans |-> 0]

\* clocks go forward one hour at 01:00 UTC of day 1: the local times
\* 01:00..01:59 of day 1 do not exist
SpringForward == [before |-> 0, after |-> 3600, trans |-> SecsPerDay + 3600]

Zones == {UTC, FixedPlusOne, SpringForward}

-----------------------------------------------------------------------------
(* chrono / chrono_tz *)

Min(a, b) == IF a <= b THEN a ELSE b

Max(a, b) == IF a >= b THEN a ELSE b

offset(z, t) == IF t < z.trans THEN z.before ELSE z.after

naive_local(z, t) == t + offset(z, t)

\* DateTime::date_naive: the local calendar day, as a day number
date_naive(z, t) == naive_local(z, t) \div SecsPerDay

\* TimeZone::from_local_datetime: the instants whose local time is n
\* (LocalResult::None, Single or Ambiguous as a set of 0, 1 or 2 instants)
from_local_datetime(z, n) ==
    {u \in {n - z.before, n - z.after} : naive_local(z, u) = n}

\* LocalResult::single: Some only for exactly one instant (an Option is a
\* set of at most one element)
single(S) == IF Cardinality(S) = 1 THEN S ELSE {}

unwrap(S) == CHOOSE x \in S : TRUE

\* DateTime::with_time(NaiveTime::MIN): local midnight of t's local date
with_time_MIN(z, t) == from_local_datetime(z, date_naive(z, t) * SecsPerDay)

\* DateTime::checked_add_days(Days::new(1)): the same local time one day on,
\* None when that local time does not exist or is ambiguous
checked_add_days(z, t) == single(from_local_datetime(z, naive_local(z, t) + SecsPerDay))

\* a day as a fixed 24 hours, not cut at local midnight
tomorrow_24h(z, current) == {current + SecsPerDay}

\* current.checked_add_days(Days::new(1))
\*        .and_then(|dt| dt.with_time(NaiveTime::MIN).single())
tomorrow(z, current) ==
    UNION {single(with_time_MIN(z, dt)) : dt \in checked_add_days(z, current)}

-----------------------------------------------------------------------------
(* split_interval *)

Panicked == [panicked |-> TRUE, value |-> <<>>]

Returned(v) == [panicked |-> FALSE, value |-> v]

\* the last interval: end.with_time(MIN).single()
\*                       .and_then(|dt| dt.checked_add_signed(*end - current))
last_end(z, current, e) ==
    {dt + (e - current) : dt \in single(with_time_MIN(z, e))}

RECURSIVE split_loop(_, _, _, _)
split_loop(z, current, e, durations) ==
    IF ~(current <= e) THEN Returned(durations)
    ELSE IF date_naive(z, current) = date_naive(z, e)
         THEN IF last_end(z, current, e) = {} THEN Panicked
              ELSE Returned(Append(durations, <<current, unwrap(last_end(z, current, e))>>))
         ELSE IF tomorrow(z, current) = {} THEN Panicked
              ELSE split_loop(z, unwrap(tomorrow(z, current)), e,
                              Append(durations, <<current, unwrap(tomorrow(z, current))>>))

split_interval(z, s, e) == split_loop(z, s, e, <<>>)

-----------------------------------------------------------------------------
(* group_by_day *)

\* the range taken as start_seconds..=end_seconds
contains_inclusive(range_start, range_end, t) == range_start <= t /\ t <= range_end

\* Range<i64>::contains for start_seconds..end_seconds
contains(range_start, range_end, t) == range_start <= t /\ t < range_end

\* record.end.is_empty() ? Utc::now() : parse_from_rfc3339(record.end)
resolve_end(record, clock) == IF record.end = Empty THEN clock ELSE record.end

\* the end left unclamped
clamp_start_only(ss, es, iv) == <<Max(iv[1], ss), iv[2]>>

\* (max(start.timestamp(), start_seconds), min(end.timestamp(), end_seconds))
clamp(ss, es, iv) == <<Max(iv[1], ss), Min(iv[2], es)>>

\* every interval pushed, without the test on the range
push_split_all(ss, es, intervals) ==
    [i \in 1..Len(intervals) |-> <<Max(intervals[i][1], ss), Min(intervals[i][2], es)>>]

\* the for loop over split_interval's intervals
push_split(ss, es, intervals) ==
    LET keep == SelectSeq(intervals,
                          LAMBDA iv : contains(ss, es, iv[1]) \/ contains(ss, es, iv[2]))
    IN  [i \in 1..Len(keep) |-> clamp(ss, es, keep[i])]

\* one iteration of the loop over the records
record_segments(z, ss, es, clock, record) ==
    LET s == record.start
        e == resolve_end(record, clock)
    IN  IF ~contains(ss, es, s) /\ ~contains(ss, es, e) THEN Returned(<<>>)
        ELSE IF date_naive(z, s) = date_naive(z, e)
             THEN Returned(<<clamp(ss, es, <<s, e>>)>>)
             ELSE IF split_interval(z, s, e).panicked THEN Panicked
                  ELSE Returned(push_split(ss, es, split_interval(z, s, e).value))

RECURSIVE group_loop(_, _, _, _, _, _)
group_loop(records, ss, es, z, clock, acc) ==
    IF records = <<>> THEN Returned(acc)
    ELSE LET r == record_segments(z, ss, es, clock, Head(records))
         IN  IF r.panicked THEN Panicked
             ELSE group_loop(Tail(records), ss, es, z, clock, acc \o r.value)

group_by_day(records, ss, es, z, clock) == group_loop(records, ss, es, z, clock, <<>>)

-----------------------------------------------------------------------------
(* visualizations::bar *)

\* the range without its last day (self.0 < self.1)
RECURSIVE DateRange_exclusive(_, _)
DateRange_exclusive(first, last) ==
    IF first < last THEN <<first>> \o DateRange_exclusive(first + 1, last) ELSE <<>>

\* DateRange as an iterator, collected
RECURSIVE DateRange(_, _)
DateRange(first, last) ==
    IF first <= last THEN <<first>> \o DateRange(first + 1, last) ELSE <<>>

\* vec.iter().map(|x| x.1 - x.0).sum::<i64>()
RECURSIVE sum_durations(_)
sum_durations(segs) ==
    IF segs = <<>> THEN 0
    ELSE (Head(segs)[2] - Head(segs)[1]) + sum_durations(Tail(segs))

\* into_group_map_by(date of e.0 in the zone).get(&date)
group_map(z, segs, date) == SelectSeq(segs, LAMBDA e : date_naive(z, e[1]) = date)

\* zipped: one (date, sum) per day of the range
bar(segs, z, ss, es) ==
    LET range == DateRange(date_naive(z, ss), date_naive(z, es))
    IN  [i \in 1..Len(range) |-> <<range[i], sum_durations(group_map(z, segs, range[i]))>>]

-----------------------------------------------------------------------------
(* fmt_duration *)

\* i64 / and %: truncate towards zero, the remainder has the dividend's sign
quot(a, b) == IF a >= 0 THEN a \div b ELSE -((-a) \div b)

rem(a, b) == a - b * quot(a, b)

DigitChars == <<"0", "1", "2", "3", "4", "5", "6", "7", "8", "9">>

RECURSIVE nat_to_string(_)
nat_to_string(n) ==
    IF n < 10 THEN <<DigitChars[n + 1]>>
    ELSE Append(nat_to_string(n \div 10), DigitChars[(n % 10) + 1])

\* Display for i64
to_string(n) == IF n < 0 THEN <<"-">> \o nat_to_string(-n) ELSE nat_to_string(n)

\* {:0>2}: right-aligned, filled with '0' to a width of two
pad2(str) == IF Len(str) < 2 THEN <<"0">> \o str ELSE str

\* the hours wrapped at 24
fmt_duration_wrapped(seconds) ==
    pad2(to_string(rem(quot(quot(seconds, 60), 60), 24))) \o <<":">>
        \o pad2(to_string(rem(quot(seconds, 60), 60))) \o <<":">>
        \o pad2(to_string(rem(seconds, 60)))

fmt_duration(seconds) ==
    pad2(to_string(quot(quot(seconds, 60), 60))) \o <<":">>
        \o pad2(to_string(rem(quot(seconds, 60), 60))) \o <<":">>
        \o pad2(to_string(rem(seconds, 60)))

-----------------------------------------------------------------------------
(* main *)

\* the records and windows of the runs of main: the repository's test
\* record (17:05:30 of day 0 to 16:32:00 of day 2), entries of 3661 s and
\* 90000 s, an entry still running, and an entry from 01:30 to noon
SampleRecords ==
    { [start |-> 61530, end |-> 2 * SecsPerDay + 59520],
      [start |-> 0, end |-> 3661],
      [start |-> SecsPerDay, end |-> SecsPerDay + 90000],
      [start |-> SecsPerDay + 43200, end |-> Empty],
      [start |-> 5400, end |-> 43200] }

SampleWindows ==
    { <<0, (MaxDay + 1) * SecsPerDay - 1>>,
      <<43200, 2 * SecsPerDay>>,
      <<SecsPerDay, SecsPerDay + 82800>> }

RECURSIVE SeqsUpTo(_, _)
SeqsUpTo(S, n) ==
    IF n = 0 THEN {<<>>}
    ELSE SeqsUpTo(S, n - 1)
            \cup {Append(q, x) : q \in {p \in SeqsUpTo(S, n - 1) : Len(p) = n - 1}, x \in S}

Init ==
    /\ tz \in Zones
    /\ \E w \in SampleWindows : start_seconds = w[1] /\ end_seconds = w[2]
    /\ data \in SeqsUpTo(SampleRecords, MaxRecords)
    /\ now = 0
    /\ res = <<>> /\ series = <<>> /\ duration = <<>>
    /\ pc = "main"
    /\ start = 0 /\ end = 0 /\ parts = <<>>

\* chrono::Utc::now() is called only for a record whose end is empty
clock_readings(records, last) ==
    IF \E i \in 1..Len(records) : records[i].end = Empty THEN Instants ELSE {last}

\* let entries = group_by_day(...).unwrap()
GroupByDay ==
    /\ pc = "main"
    /\ \E clock \in clock_readings(data, now) :
         LET r == group_by_day(data, start_seconds, end_seconds, tz, clock) IN
           /\ res' = r.value
           /\ pc' = IF r.panicked THEN "panic" ELSE "grouped"
           /\ now' = clock
    /\ UNCHANGED <<tz, start_seconds, end_seconds, data, series, duration,
                   start, end, parts>>

\* let bar = visualizations::bar(...)
Bar ==
    /\ pc = "grouped"
    /\ series' = bar(res, tz, start_seconds, end_seconds)
    /\ pc' = "charted"
    /\ UNCHANGED <<tz, start_seconds, end_seconds, data, now, res, duration,
                   start, end, parts>>

\* println!(Report { duration: &fmt_duration(sum of entry.1 - entry.0), .. })
PrintReport ==
    /\ pc = "charted"
    /\ duration' = fmt_duration(sum_durations(res))
    /\ pc' = "done"
    /\ UNCHANGED <<tz, start_seconds, end_seconds, data, now, res, series,
                   start, end, parts>>

Next == GroupByDay \/ Bar \/ PrintReport

Spec == Init /\ [][Next]_vars

-----------------------------------------------------------------------------
(* group_by_day on one record, over every record and window of the grid *)

GridRecords == {[start |-> s, end |-> e] : s \in Instants, e \in Instants \cup {Empty}}

InitGroup ==
    /\ tz \in Zones
    /\ start_seconds \in Instants
    /\ end_seconds \in Instants
    /\ data \in {<<r>> : r \in GridRecords}
    /\ now = 0
    /\ res = <<>> /\ series = <<>> /\ duration = <<>>
    /\ pc = "main"
    /\ start = 0 /\ end = 0 /\ parts = <<>>

NextGroup == GroupByDay

SpecGroup == InitGroup /\ [][NextGroup]_vars

-----------------------------------------------------------------------------
(* tests: split_interval on its own *)

InitSplit ==
    /\ tz \in Zones
    /\ start \in Instants
    /\ end \in Instants
    /\ parts = <<>>
    /\ pc = "test"
    /\ start_seconds = 0 /\ end_seconds = 0 /\ data = <<>> /\ now = 0
    /\ res = <<>> /\ series = <<>> /\ duration = <<>>

CallSplitInterval ==
    /\ pc = "test"
    /\ LET r == split_interval(tz, start, end) IN
         /\ parts' = r.value
         /\ pc' = IF r.panicked THEN "panic" ELSE "returned"
    /\ UNCHANGED <<tz, start_seconds, end_seconds, data, now, res, series,
                   duration, start, end>>

NextSplit == CallSplitInterval

SpecSplit == InitSplit /\ [][NextSplit]_vars

-----------------------------------------------------------------------------
(* split_interval and group_by_day side by side, for what both of them do  *)
(* with an interval that ends before it starts                             *)

InitUnits == InitSplit \/ InitGroup

NextUnits == CallSplitInterval \/ GroupByDay

SpecUnits == InitUnits /\ [][NextUnits]_vars

-----------------------------------------------------------------------------
(* What the properties below speak of *)

\* the record group_by_day was given, with its end resolved
rec_start == data[1].start

rec_end == resolve_end(data[1], now)

InWindow(t) == start_seconds <= t /\ t < end_seconds

Duration(iv) == iv[2] - iv[1]

RECURSIVE SumOver(_, _)
SumOver(ivs, idx) ==
    IF idx = {} THEN 0
    ELSE LET j == CHOOSE j \in idx : TRUE
         IN  Duration(ivs[j]) + SumOver(ivs, idx \ {j})

Total(ivs) == SumOver(ivs, 1..Len(ivs))

Overlap(a, b) == Max(a[1], b[1]) < Min(a[2], b[2])

\* the zone's offset does not change from a day before s to two days after
\* e: every local time split_interval computes for (s, e) exists once
NoTransitionNear(z, s, e) ==
    \/ z.before = z.after
    \/ z.trans + SecsPerDay <= s
    \/ e + 2 * SecsPerDay < z.trans

\* t is the local midnight that begins local day d
IsMidnightOf(z, t, d) == naive_local(z, t) = d * SecsPerDay

-----------------------------------------------------------------------------
(* Splitter *)

\* C1: for every start <= end, split_interval returns a non-empty sequence
\* that starts at start, ends at end, is contiguous, and whose durations sum
\* to end - start.
C1_SplitterCoverage ==
    (pc \in {"returned", "panic"} /\ start <= end) =>
        /\ pc = "returned"
        /\ Len(parts) >= 1
        /\ parts[1][1] = start
        /\ parts[Len(parts)][2] = end
        /\ \A i \in 1..(Len(parts) - 1) : parts[i][2] = parts[i + 1][1]
        /\ Total(parts) = end - start

\* C2: when start <= end fall on the same local date, split_interval returns
\* exactly the one interval (start, end), whatever the time of day of start.
C2_SingleDayNoOp ==
    (pc \in {"returned", "panic"} /\ start <= end
        /\ date_naive(tz, start) = date_naive(tz, end)) =>
        /\ pc = "returned"
        /\ parts = <<<<start, end>>>>

-----------------------------------------------------------------------------
(* Grouper *)

\* C3: every segment group_by_day emits, for any record and window, has its
\* start and its end inside [window_start, window_end].
C3_WindowClamping ==
    pc = "grouped" =>
        \A i \in 1..Len(res) :
            /\ start_seconds <= res[i][1] /\ res[i][1] <= end_seconds
            /\ start_seconds <= res[i][2] /\ res[i][2] <= end_seconds

\* C4: group_by_day emits a segment for a record, and for a sub-interval of a
\* record that spans several days, only if its start or its end lies in
\* [window_start, window_end); a record that starts before the window and
\* ends at or after its end yields no segment.
C4_KeptOnlyWithEndpointInWindow ==
    (pc = "grouped" /\ Len(data) = 1) =>
        /\ res # <<>> => InWindow(rec_start) \/ InWindow(rec_end)
        /\ (rec_start < start_seconds /\ rec_end >= end_seconds) => res = <<>>
        /\ date_naive(tz, rec_start) # date_naive(tz, rec_end) =>
              LET sub == split_interval(tz, rec_start, rec_end).value IN
                \A i \in 1..Len(res) : \E k \in 1..Len(sub) :
                    /\ InWindow(sub[k][1]) \/ InWindow(sub[k][2])
                    /\ res[i] = <<Max(sub[k][1], start_seconds),
                                  Min(sub[k][2], end_seconds)>>

\* C4's case: a record that covers a non-empty window on both sides is dropped
C4_Witness ==
    /\ pc = "grouped" /\ Len(data) = 1
    /\ start_seconds < end_seconds
    /\ rec_start < start_seconds /\ end_seconds < rec_end
    /\ res = <<>>

\* C5: an interval that ends before it starts is fatal: split_interval does
\* not return for end < start, and group_by_day aborts on a record whose
\* resolved end is before its start.
C5_EndBeforeStartIsFatal ==
    /\ (pc \in {"returned", "panic"} /\ data = <<>> /\ end < start) => pc = "panic"
    /\ (pc \in {"grouped", "panic"} /\ Len(data) = 1 /\ rec_end < rec_start)
            => pc = "panic"

-----------------------------------------------------------------------------
(* Aggregators *)

\* C7: for a window whose start date is not after its end date the per-day
\* series has one entry per calendar day from the window's start date to its
\* end date, in order, each the sum of the durations of the segments that
\* start on that local day.
C7_DenseDaySeries ==
    (pc \in {"charted", "done"}
        /\ date_naive(tz, start_seconds) <= date_naive(tz, end_seconds)) =>
        /\ Len(series) = date_naive(tz, end_seconds) - date_naive(tz, start_seconds) + 1
        /\ \A i \in 1..Len(series) :
              /\ series[i][1] = date_naive(tz, start_seconds) + (i - 1)
              /\ series[i][2] =
                    SumOver(res, {j \in 1..Len(res) :
                                    date_naive(tz, res[j][1]) = series[i][1]})

\* C7's case: a series of several days, one with segments and one without
C7_Witness ==
    /\ pc = "charted"
    /\ Len(series) >= 3
    /\ \E i, j \in 1..Len(series) : series[i][2] > 0 /\ series[j][2] = 0
    /\ \E i \in 1..Len(series) :
          Cardinality({j \in 1..Len(res) : date_naive(tz, res[j][1]) = series[i][1]}) >= 2

Colons(str) == {i \in 1..Len(str) : str[i] = ":"}

IsDigits(str) == \A i \in 1..Len(str) : \E d \in 0..9 : DigitChars[d + 1] = str[i]

RECURSIVE ParseNat(_)
ParseNat(str) ==
    IF str = <<>> THEN 0
    ELSE 10 * ParseNat(SubSeq(str, 1, Len(str) - 1))
            + (CHOOSE d \in 0..9 : DigitChars[d + 1] = str[Len(str)])

\* the three fields of "h:m:s"
Fields(str) ==
    LET c1 == CHOOSE i \in Colons(str) : \A j \in Colons(str) : i <= j
        c2 == CHOOSE i \in Colons(str) : \A j \in Colons(str) : j <= i
    IN  <<SubSeq(str, 1, c1 - 1), SubSeq(str, c1 + 1, c2 - 1),
          SubSeq(str, c2 + 1, Len(str))>>

\* C9: the reported duration is that of the sum T of the segments' durations:
\* for T >= 0 it shows h = T div 3600 (not wrapped at 24), m = (T div 60) mod
\* 60 and s = T mod 60, each on at least two digits, with m, s < 60 and
\* h*3600 + m*60 + s = T; 3661 is shown as 01:01:01 and 90000 as 25:00:00.
C9_TotalDuration ==
    (pc = "done" /\ Total(res) >= 0) =>
        LET T == Total(res)
            f == Fields(duration)
            h == ParseNat(f[1])
            m == ParseNat(f[2])
            s == ParseNat(f[3])
        IN  /\ Cardinality(Colons(duration)) = 2
            /\ \A k \in 1..3 : IsDigits(f[k]) /\ Len(f[k]) >= 2
            /\ Len(f[2]) = 2 /\ Len(f[3]) = 2
            /\ h = T \div 3600
            /\ m = (T \div 60) % 60
            /\ s = T % 60
            /\ m < 60 /\ s < 60
            /\ h * 3600 + m * 60 + s = T
            /\ T = 3661 => duration = <<"0", "1", ":", "0", "1", ":", "0", "1">>
            /\ T = 90000 => duration = <<"2", "5", ":", "0", "0", ":", "0", "0">>

\* C9's case: a total of more than a day, shown with 25 hours
C9_Witness ==
    /\ pc = "done"
    /\ Total(res) = 90000
    /\ Len(res) >= 2
    /\ duration = <<"2", "5", ":", "0", "0", ":", "0", "0">>

====
